---- MODULE Spec2Model ----
(***************************************************************************)
(* A model of scripts/analyze_results.py: the packet-log correlation       *)
(* (load_and_merge_packets), the series-size inference                     *)
(* (infer_series_size_from_runs), the health scoring (compute_health,      *)
(* compute_health_over_time), the QoS aggregation (compute_qos) and the    *)
(* first-offline table of plot_movement.                                   *)
(*                                                                         *)
(* Encodings.  A node identifier is a string, modelled as the sequence of  *)
(* its characters, so that str.endswith("S") and sorted() are computed     *)
(* rather than assumed.  A missing value (pandas NaN / Python None) is the *)
(* empty sequence <<>>, a present value v is                               *)
(* <<v>>; a missing recv_node is the empty string <<>>.  Times and sizes   *)
(* are integers; a quotient computed in floating point is kept as the      *)
(* exact fraction [n |-> numerator, d |-> denominator].  A time counts     *)
(* units of 1/time_scale seconds: whole seconds, or tenths where the       *)
(* rounding of the window cutoff in binary64 is at stake.  The run of      *)
(* main() is modelled step by step with everything it prints or writes.    *)
(***************************************************************************)
EXTENDS Integers, Sequences, FiniteSets, TLC

VARIABLES
    pc,           \* position in the run
    log,          \* rows of packets.csv, in file order
    conn,         \* rows of connectivity.csv, in file order
    df_send,      \* load_and_merge_packets: the send rows
    merged,       \* load_and_merge_packets: the left join of sends and receives
    normal_ids,   \* load_and_merge_packets: sorted ids not ending in "S"
    spine_ids,    \* load_and_merge_packets: sorted ids ending in "S"
    t0,           \* load_and_merge_packets: earliest send time (or NaN)
    t1,           \* load_and_merge_packets: latest send time (or NaN)
    series_size,  \* the series size in use (given, or inferred), NaN while unset
    extra_ids,    \* silent nodes the caller adds to the normal_ids argument
    argsort,      \* the tie order the build's unstable argsort gives each key array
    health,       \* compute_health: the records list, with each node's sorted sub-frame
    dfh,          \* compute_health: the returned frame (fraction formatted)
    steps,        \* compute_health_over_time: the steps argument
    results,      \* compute_health_over_time: the results list
    windows,      \* compute_health_over_time: the loop's locals at each iteration
    qos,          \* compute_qos: the records list
    dfq,          \* compute_qos: the returned frame (columns formatted)
    averages,     \* compute_qos: the returned averages
    offline_times,\* plot_movement: the offline_times frame, a row per node
    args,         \* main: the parsed command line and the columns the files have
    stdout,       \* what the run has printed or written so far, in order
    time_scale    \* the log's times count 1/time_scale seconds (1.0, or 0.1)

vars == <<pc, log, conn, df_send, merged, normal_ids, spine_ids, t0, t1,
          series_size, extra_ids, argsort, health, dfh, steps, results,
          windows, qos, dfq, averages, offline_times, args, stdout, time_scale>>

----------------------------------------------------------------------------
(* Bounds of the model. *)

MaxSends == 3
MaxRecvs == 2
MaxTime == 1
MaxSeries == 2
MaxSteps == 2
MaxInferSends == 4
MaxQosSends == 2
MaxQosRecvs == 2
MaxQosTime == 2
MaxSamples == 3
MaxMainSends == 1
MaxCutSends == 2
MaxConnTime == 2

----------------------------------------------------------------------------
(* Optional values, fractions, generic helpers. *)

NaN == <<>>
Some(v) == <<v>>
IsNaN(x) == x = <<>>
Val(x) == x[1]

Frac(a, b) == [n |-> a, d |-> b]
FracEq(x, y) == x.n * y.d = y.n * x.d
FracLeq(x, y) == x.n * y.d <= y.n * x.d
FracAdd(x, y) == [n |-> x.n * y.d + y.n * x.d, d |-> x.d * y.d]

Min2(a, b) == IF a <= b THEN a ELSE b
Max2(a, b) == IF a >= b THEN a ELSE b

RECURSIVE SeqSum(_)
SeqSum(s) == IF s = <<>> THEN 0 ELSE Head(s) + SeqSum(Tail(s))

RECURSIVE SeqMin(_)
SeqMin(s) == IF Len(s) = 1 THEN s[1] ELSE Min2(Head(s), SeqMin(Tail(s)))

RECURSIVE SeqMax(_)
SeqMax(s) == IF Len(s) = 1 THEN s[1] ELSE Max2(Head(s), SeqMax(Tail(s)))

Range(s) == {s[i] : i \in 1..Len(s)}

\* math.ceil(n / k) for n >= 0, k >= 1
Ceil(n, k) == (n + k - 1) \div k

----------------------------------------------------------------------------
(* Strings as character sequences. *)

CharCode(c) ==
    CASE c = "0" -> 48 [] c = "1" -> 49 [] c = "2" -> 50 [] c = "3" -> 51
      [] c = "S" -> 83

\* str.endswith("S")
EndsWithS(s) == Len(s) > 0 /\ s[Len(s)] = "S"

\* Python's < on two strings: lexicographic by code point
RECURSIVE StrLess(_, _)
StrLess(a, b) ==
    IF b = <<>> THEN FALSE
    ELSE IF a = <<>> THEN TRUE
    ELSE IF Head(a) # Head(b) THEN CharCode(Head(a)) < CharCode(Head(b))
    ELSE StrLess(Tail(a), Tail(b))

\* sorted(S) for a set of strings
RECURSIVE SortedStrs(_)
SortedStrs(S) ==
    IF S = {} THEN <<>>
    ELSE LET m == CHOOSE x \in S : \A y \in S \ {x} : StrLess(x, y)
         IN <<m>> \o SortedStrs(S \ {m})
----------------------------------------------------------------------------
(* load_and_merge_packets *)

\* df[df["received"] == 0].rename(columns={"time": "time_send"})
SendRow(r) == [uid |-> r.uid, time_send |-> r.time, node |-> r.node, size |-> r.size]
SendRows(rows) ==
    LET IsSend(r) == r.received = 0
        s == SelectSeq(rows, IsSend)
    IN [i \in 1..Len(s) |-> SendRow(s[i])]

\* df[df["received"] == 1].loc[:, ["uid", "time", "node"]].rename(...)
RecvRow(r) == [uid |-> r.uid, time_recv |-> r.time, recv_node |-> r.node]
RecvRows(rows) ==
    LET IsRecv(r) == r.received = 1
        s == SelectSeq(rows, IsRecv)
    IN [i \in 1..Len(s) |-> RecvRow(s[i])]

\* one left row joined with its matches: a row per matching right row, in the
\* right frame's order, or a single row with the right columns missing
JoinRow(l, recvs) ==
    LET Match(r) == r.uid = l.uid
        m == SelectSeq(recvs, Match)
    IN IF m = <<>>
       THEN << [uid |-> l.uid, time_send |-> l.time_send, node |-> l.node,
                size |-> l.size, time_recv |-> NaN, recv_node |-> NaN] >>
       ELSE [i \in 1..Len(m) |->
               [uid |-> l.uid, time_send |-> l.time_send, node |-> l.node,
                size |-> l.size, time_recv |-> Some(m[i].time_recv),
                recv_node |-> m[i].recv_node]]

\* pd.merge(df_send[...], df_recv, on="uid", how="left"): left order kept
RECURSIVE MergeLeft(_, _)
MergeLeft(sends, recvs) ==
    IF sends = <<>> THEN <<>>
    ELSE JoinRow(Head(sends), recvs) \o MergeLeft(Tail(sends), recvs)

\* merged["node"].unique()
NodesOf(m) == {m[i].node : i \in 1..Len(m)}

SpineIdsOf(m) == SortedStrs({n \in NodesOf(m) : EndsWithS(n)})
NormalIdsOf(m) == SortedStrs({n \in NodesOf(m) : ~EndsWithS(n)})

\* Series.min() / Series.max(): NaN on an empty column
TimeMin(sends) ==
    IF sends = <<>> THEN NaN
    ELSE Some(SeqMin([i \in 1..Len(sends) |-> sends[i].time_send]))
TimeMax(sends) ==
    IF sends = <<>> THEN NaN
    ELSE Some(SeqMax([i \in 1..Len(sends) |-> sends[i].time_send]))

----------------------------------------------------------------------------
(* DataFrame.sort_values("time_send"): numpy's default argsort is not      *)
(* stable, so rows with equal keys come out in an order that depends on    *)
(* the build (SIMD sorting networks or introsort).  The order is a fixed   *)
(* function of the key array: the model picks it once per key array and    *)
(* remembers it in argsort.                                                *)

RECURSIVE PermSeqs(_)
PermSeqs(S) ==
    IF S = {} THEN {<<>>}
    ELSE UNION {{<<x>> \o p : p \in PermSeqs(S \ {x})} : x \in S}

MaxRows == MaxSends + MaxRecvs
PermTable == [k \in 0..MaxRows |-> PermSeqs(1..k)]

\* the index orders an argsort of keys may return
ArgsortOutcomes(keys) ==
    {p \in PermTable[Len(keys)] :
        \A i \in 1..(Len(keys) - 1) : keys[p[i]] <= keys[p[i + 1]]}

\* every way of fixing the order of the key arrays in S
RECURSIVE ArgsortChoices(_)
ArgsortChoices(S) ==
    IF S = {} THEN {<<>>}
    ELSE LET a == CHOOSE x \in S : TRUE
         IN {(a :> p) @@ f : p \in ArgsortOutcomes(a), f \in ArgsortChoices(S \ {a})}

\* merged[merged["node"] == node]
RowsOfNode(m, node) ==
    LET Is(r) == r.node = node
    IN SelectSeq(m, Is)

SendTimes(rows) == [i \in 1..Len(rows) |-> rows[i].time_send]

\* rows.sort_values("time_send") under the tie orders in memo
SortByTime(rows, memo) ==
    LET p == memo[SendTimes(rows)]
    IN [i \in 1..Len(rows) |-> rows[p[i]]]

----------------------------------------------------------------------------
(* compute_health *)

\* sub.iloc[i*series_size : (i+1)*series_size], i counted from 0
Chunk(sub, i, size) == SubSeq(sub, i * size + 1, Min2((i + 1) * size, Len(sub)))

\* chunk["recv_node"].isin(spine_ids).any()
ChunkHealthy(chunk, spines) ==
    \E j \in 1..Len(chunk) : chunk[j].recv_node \in Range(spines)

\* mutant: counts the spine-received rows, not the chunks that hold one
HealthyCountRows(sub, spines, size) ==
    Cardinality({j \in 1..Len(sub) : sub[j].recv_node \in Range(spines)})

HealthyCount(sub, spines, size) ==
    Cardinality({i \in 0..(Ceil(Len(sub), size) - 1) :
                    ChunkHealthy(Chunk(sub, i, size), spines)})

\* healthy / total if total > 0 else 0.0
HealthFrac(healthy, total) == IF total > 0 THEN Frac(healthy, total) ELSE Frac(0, 1)

\* round(n / d) to the nearest integer, halves to even (n >= 0, d > 0)
RoundHalfEven(n, d) ==
    LET q == n \div d
        r == n % d
    IN IF 2 * r < d THEN q
       ELSE IF 2 * r > d THEN q + 1
       ELSE IF q % 2 = 0 THEN q ELSE q + 1

(* The quotients are binary64 values, and the formats print the decimal     *)
(* nearest to the value held.  That is the rounding of the exact quotient  *)
(* except when the exact quotient is halfway between two decimals: then    *)
(* the side the binary64 value lies on decides.  The side is found by long *)
(* division to the 53 significant bits of the format.                      *)

RECURSIVE BitLen(_)
BitLen(q) == IF q = 0 THEN 0 ELSE 1 + BitLen(q \div 2)

RECURSIVE IsPow2(_)
IsPow2(q) == IF q = 1 THEN TRUE ELSE IF q % 2 = 1 THEN FALSE ELSE IsPow2(q \div 2)

\* the next left bits of r / d after the bits taken so far: the remainder, the
\* last bit, and whether every bit after the leading one is zero
RECURSIVE FracBits(_, _, _, _, _)
FracBits(r, d, last, zero, left) ==
    IF left = 0 THEN [r |-> r, last |-> last, zero |-> zero]
    ELSE IF 2 * r >= d THEN FracBits(2 * r - d, d, 1, FALSE, left - 1)
    ELSE FracBits(2 * r, d, 0, zero, left - 1)

\* the position z of the leading one of r / d < 1, and the remainder after it
RECURSIVE LeadBit(_, _, _)
LeadBit(r, d, z) ==
    IF 2 * r >= d THEN [r |-> 2 * r - d, z |-> z + 1] ELSE LeadBit(2 * r, d, z + 1)

\* n / d (n, d > 0) cut after 53 significant bits: the remainder r (the part cut
\* off is r / d units in the last place), the last bit kept, whether the bits
\* after the leading one are all zero, and the binary exponent e
Div53(n, d) ==
    LET q0 == n \div d
        r0 == n % d
    IN IF q0 > 0
       THEN LET t == FracBits(r0, d, q0 % 2, IsPow2(q0), 53 - BitLen(q0))
            IN [r |-> t.r, last |-> t.last, zero |-> t.zero, e |-> BitLen(q0) - 1]
       ELSE LET h == LeadBit(r0, d, 0)
                t == FracBits(h.r, d, 1, TRUE, 52)
            IN [r |-> t.r, last |-> t.last, zero |-> t.zero, e |-> 0 - h.z]

\* the binary64 quotient n / d less the exact one, in 1/d units in the last
\* place (round to nearest, ties to even)
DivError(n, d) ==
    LET c == Div53(n, d)
    IN IF c.r = 0 THEN 0
       ELSE IF 2 * c.r < d THEN 0 - c.r
       ELSE IF 2 * c.r > d THEN d - c.r
       ELSE IF c.last = 0 THEN 0 - c.r ELSE d - c.r

Sign(x) == IF x > 0 THEN 1 ELSE IF x < 0 THEN 0 - 1 ELSE 0

\* the side of n / d its binary64 value lies on
DivSide(n, d) == Sign(DivError(n, d))

\* the side of 100 n / d that the binary64 product (n / d) * 100 lies on: the
\* product of the rounded quotient is rounded once more
Times100Side(n, d) ==
    LET ct == Div53(100 * n, d)
        k == ct.e - Div53(n, d).e
        U == d * (IF k = 6 THEN 64 ELSE 128)
        S == ct.r * (IF k = 6 THEN 64 ELSE 128) + 100 * DivError(n, d)
        f == S \div U
        rem == S % U
        j == IF 2 * rem > U THEN f + 1
             ELSE IF 2 * rem < U THEN f
             ELSE IF (ct.last + f) % 2 = 0 THEN f ELSE f + 1
        same == IF ct.zero THEN 4 * (0 - S) <= U
                ELSE 2 * (0 - S) < U \/ (2 * (0 - S) = U /\ ct.last = 0)
    IN IF S < 0 THEN (IF same /\ ct.r = 0 THEN 0 ELSE 0 - 1)
       ELSE IF j >= 1 THEN 1
       ELSE IF ct.r = 0 THEN 0 ELSE 0 - 1

\* n / d to the nearest integer, a half going to the side given (to even when
\* the value held is the half itself)
RoundToSide(n, d, side) ==
    IF 2 * (n % d) # d THEN RoundHalfEven(n, d)
    ELSE IF side < 0 THEN n \div d
    ELSE IF side > 0 THEN (n \div d) + 1
    ELSE RoundHalfEven(n, d)

\* f"{v:.Nf}" of the binary64 quotient v = f.n / f.d, as the integer v * scale
\* rounded (scale = 10^N)
RECURSIVE FormatFixed(_, _)
FormatFixed(f, scale) ==
    IF f.n = 0 THEN 0
    ELSE IF f.n < 0 THEN 0 - FormatFixed(Frac(0 - f.n, f.d), scale)
    ELSE RoundToSide(f.n * scale, f.d,
                     IF 2 * ((f.n * scale) % f.d) = f.d THEN DivSide(f.n, f.d) ELSE 0)

\* "{:.2%}".format(v) and f"{v*100:.2f}%" of the binary64 quotient v = f.n / f.d
\* (v >= 0): the digits of the percentage, in hundredths of a percent
FormatPercent(f) ==
    IF f.n = 0 THEN 0
    ELSE RoundToSide(f.n * 10000, f.d,
                     IF 2 * ((f.n * 10000) % f.d) = f.d THEN Times100Side(f.n, f.d) ELSE 0)

\* one iteration of the loop over normal_ids
HealthRecord(m, node, spines, size, memo) ==
    LET sub == SortByTime(RowsOfNode(m, node), memo)
        total == Ceil(Len(sub), size)
        healthy == HealthyCount(sub, spines, size)
    IN [node |-> node, total |-> total, healthy |-> healthy,
        frac |-> HealthFrac(healthy, total), sub |-> sub]

\* the frame built from records, health_fraction mapped through the format
HealthFrame(records) ==
    [n \in {records[i].node : i \in 1..Len(records)} |->
        LET r == records[CHOOSE i \in 1..Len(records) : records[i].node = n]
        IN [total_series |-> r.total, healthy_series |-> r.healthy,
            health_fraction |-> FormatPercent(r.frac)]]

\* the normal_ids argument of the scoring functions
ArgIdsOf(ids, extra) == SortedStrs(Range(ids) \cup extra)
ArgIds == ArgIdsOf(normal_ids, extra_ids)

\* the key arrays sorted while scoring rows m for the nodes ids
KeysSorted(m, ids) == {SendTimes(RowsOfNode(m, ids[i])) : i \in 1..Len(ids)}
----------------------------------------------------------------------------
(* infer_series_size_from_runs *)

\* (time_send, uid) of a before that of b
KeyLess(a, b) ==
    \/ a.time_send < b.time_send
    \/ a.time_send = b.time_send /\ a.uid < b.uid

\* insert r after the rows whose key is not greater: a stable insertion
RECURSIVE InsertByKey(_, _)
InsertByKey(r, sorted) ==
    IF sorted = <<>> THEN <<r>>
    ELSE IF KeyLess(r, Head(sorted)) THEN <<r>> \o sorted
    ELSE <<Head(sorted)>> \o InsertByKey(r, Tail(sorted))

\* df_send.sort_values(["time_send", "uid"], ignore_index=True): a lexsort, stable
RECURSIVE SortByTimeUid(_)
SortByTimeUid(rows) ==
    IF rows = <<>> THEN <<>>
    ELSE InsertByKey(rows[Len(rows)], SortByTimeUid(SubSeq(rows, 1, Len(rows) - 1)))

\* the loop over nodes[1:]: the run lengths closed so far, the run in progress
RECURSIVE RunLoop(_, _, _, _)
RunLoop(rest, current, count, lengths) ==
    IF rest = <<>> THEN Append(lengths, count)
    ELSE IF Head(rest) = current
         THEN RunLoop(Tail(rest), current, count + 1, lengths)
         ELSE RunLoop(Tail(rest), Head(rest), 1, Append(lengths, count))

RunLengths(nodes) == RunLoop(Tail(nodes), Head(nodes), 1, <<>>)

\* Counter(xs): the distinct values in order of first insertion, with their counts
RECURSIVE CounterOf(_)
CounterOf(xs) ==
    IF xs = <<>> THEN <<>>
    ELSE LET c == CounterOf(SubSeq(xs, 1, Len(xs) - 1))
             x == xs[Len(xs)]
         IN IF \E i \in 1..Len(c) : c[i].key = x
            THEN [i \in 1..Len(c) |->
                    IF c[i].key = x THEN [key |-> x, cnt |-> c[i].cnt + 1] ELSE c[i]]
            ELSE Append(c, [key |-> x, cnt |-> 1])

\* mutant: a later item with an equal count replaces the best
MaxByCountLast(items, best) ==
    IF Head(items).cnt >= best.cnt THEN Head(items) ELSE best

\* max(items, key=count): the step that keeps the first maximal item
MaxByCountStep(items, best) ==
    IF Head(items).cnt > best.cnt THEN Head(items) ELSE best

RECURSIVE MaxByCount(_, _)
MaxByCount(items, best) ==
    IF items = <<>> THEN best
    ELSE MaxByCount(Tail(items), MaxByCountStep(items, best))

\* Counter(run_lengths).most_common(1)[0][0]
MostCommon(xs) ==
    LET c == CounterOf(xs)
    IN MaxByCount(Tail(c), Head(c)).key

NodeColumn(rows) == [i \in 1..Len(rows) |-> rows[i].node]

InferSeriesSize(sends) == MostCommon(RunLengths(NodeColumn(SortByTimeUid(sends))))

----------------------------------------------------------------------------
(* compute_qos *)

\* t1 - t0 if (t1 - t0) > 0 else 1.0; a comparison with NaN is false
SimDuration(a, b) ==
    IF ~IsNaN(a) /\ ~IsNaN(b) /\ Val(b) - Val(a) > 0 THEN Val(b) - Val(a) ELSE 1

\* sub[sub["recv_node"].notna()]
ReceivedRows(sub) ==
    LET Has(r) == ~IsNaN(r.recv_node)
    IN SelectSeq(sub, Has)

\* mutant: zero, not NaN, for a node that sent nothing
PdrOrZero(sent, received) ==
    IF sent > 0 THEN Some(Frac(received, sent)) ELSE Some(Frac(0, 1))

\* total_received / total_sent if total_sent > 0 else nan
Pdr(sent, received) ==
    IF sent > 0 THEN Some(Frac(received, sent)) ELSE NaN

\* (received_df["time_recv"] - received_df["time_send"]).mean() or nan
AvgDelay(rcv) ==
    IF Len(rcv) > 0
    THEN Some(Frac(SeqSum([i \in 1..Len(rcv) |-> Val(rcv[i].time_recv) - rcv[i].time_send]),
                   Len(rcv)))
    ELSE NaN

\* mutant: the bytes, not the bits
TotalBytes(rcv) == SeqSum([i \in 1..Len(rcv) |-> rcv[i].size])

\* (received_df["size"] * 8).sum()
TotalBits(rcv) == SeqSum([i \in 1..Len(rcv) |-> rcv[i].size * 8])

\* total_bits / sim_duration if total_received > 0 else 0.0
Throughput(rcv, duration) ==
    IF Len(rcv) > 0 THEN Frac(TotalBits(rcv), duration) ELSE Frac(0, 1)

\* one iteration of the loop over normal_ids
QosRecord(m, node, duration) ==
    LET sub == RowsOfNode(m, node)
        rcv == ReceivedRows(sub)
    IN [node |-> node, total_sent |-> Len(sub), total_received |-> Len(rcv),
        pdr |-> Pdr(Len(sub), Len(rcv)), avg_delay |-> AvgDelay(rcv),
        throughput |-> Throughput(rcv, duration)]

\* mutant: a NaN is taken as zero
NaNAsZero(xs) == [i \in 1..Len(xs) |-> IF IsNaN(xs[i]) THEN Frac(0, 1) ELSE Val(xs[i])]

\* the list built by: if not math.isnan(v): list.append(v)
NotNaN(xs) ==
    LET Def(x) == ~IsNaN(x)
        d == SelectSeq(xs, Def)
    IN [i \in 1..Len(d) |-> Val(d[i])]

RECURSIVE FracSum(_)
FracSum(xs) == IF xs = <<>> THEN Frac(0, 1) ELSE FracAdd(Head(xs), FracSum(Tail(xs)))

\* np.nan if len(xs) == 0 else np.mean(xs)
MeanOrNaN(xs) ==
    IF Len(xs) = 0 THEN NaN
    ELSE LET t == FracSum(xs) IN Some(Frac(t.n, t.d * Len(xs)))

QosAverages(records) ==
    [avg_pdr |-> MeanOrNaN(NotNaN([i \in 1..Len(records) |-> records[i].pdr])),
     avg_delay |-> MeanOrNaN(NotNaN([i \in 1..Len(records) |-> records[i].avg_delay])),
     avg_throughput |-> MeanOrNaN([i \in 1..Len(records) |-> records[i].throughput])]

\* f"{v:.Nf}" if not math.isnan(v) else "NaN" (scale = 10^N)
FormatOrNaN(x, scale) == IF IsNaN(x) THEN "NaN" ELSE FormatFixed(Val(x), scale)

\* f"{v*100:.2f}%" if not math.isnan(v) else "NaN"
FormatPercentOrNaN(x) == IF IsNaN(x) THEN "NaN" ELSE FormatPercent(Val(x))

\* the frame built from records: pdr as "{v*100:.2f}%", avg_delay as "{v:.5f}",
\* throughput as "{v:.2f}"
QosFrame(records) ==
    [n \in {records[i].node : i \in 1..Len(records)} |->
        LET r == records[CHOOSE i \in 1..Len(records) : records[i].node = n]
        IN [total_sent |-> r.total_sent, total_received |-> r.total_received,
            pdr |-> FormatPercentOrNaN(r.pdr),
            avg_delay |-> FormatOrNaN(r.avg_delay, 100000),
            throughput |-> FormatFixed(r.throughput, 100)]]

----------------------------------------------------------------------------
(* plot_movement: the first offline time per node *)

\* df_conn[df_conn["online"] == False]
OfflineRows(samples) ==
    LET Off(r) == r.online = FALSE
    IN SelectSeq(samples, Off)

\* the "time" column of the rows of one group
GroupTimes(rows, node) ==
    LET Is(r) == r.node = node
        g == SelectSeq(rows, Is)
    IN [i \in 1..Len(g) |-> g[i].time]

\* mutant: the first row of the group, not its minimum
GroupFirst(ts) == ts[1]

\* .min() of one group
GroupMin(ts) == SeqMin(ts)

\* the group keys in ascending order (groupby sorts them)
RECURSIVE SortedInts(_)
SortedInts(S) ==
    IF S = {} THEN <<>>
    ELSE LET m == CHOOSE x \in S : \A y \in S : x <= y
         IN <<m>> \o SortedInts(S \ {m})

\* .groupby("node")["time"].min().reset_index().rename(columns={"time": "offline_time"})
FirstOfflineTimes(samples) ==
    LET off == OfflineRows(samples)
        keys == SortedInts({off[i].node : i \in 1..Len(off)})
    IN [k \in 1..Len(keys) |->
          [node |-> keys[k], offline_time |-> GroupMin(GroupTimes(off, keys[k]))]]

----------------------------------------------------------------------------
(* Inputs. *)

NormalNames == {<<"1">>, <<"2">>}
SpineNames == {<<"1", "S">>, <<"2", "S">>}
\* the nodes that send: spine "2S" only ever receives
SenderNames == NormalNames \cup {<<"1", "S">>}
\* the nodes that receive: the spines and one normal node
ReceiverNames == SpineNames \cup {<<"2">>}
\* a node id a caller may score although it never sent
SilentNames == {<<"3">>}

Times == 0..MaxTime

SendEvent(u, t, n, z) == [uid |-> u, time |-> t, node |-> n, size |-> z, received |-> 0]
RecvEvent(u, t, n) == [uid |-> u, time |-> t, node |-> n, size |-> 1, received |-> 1]

\* packet log: js send rows with packet ids 1, 2, ... in file order, then jr
\* receive rows for those packets, each at one of the times rtimes
LogIsTimedPacketLog(stimes, names, sizes, rtimes, rnames, ks, kr) ==
    \E js \in 0..ks : \E cs \in [1..js -> stimes \X names \X sizes] :
    \E jr \in 0..kr : \E cr \in [1..jr -> (1..js) \X rtimes \X rnames] :
        log = [i \in 1..js |-> SendEvent(i, cs[i][1], cs[i][2], cs[i][3])]
              \o [i \in 1..jr |-> RecvEvent(cr[i][1], cr[i][2], cr[i][3])]

\* the same with sends at whole seconds up to MaxTime
LogIsPacketLog(names, sizes, rtimes, rnames, ks, kr) ==
    LogIsTimedPacketLog(Times, names, sizes, rtimes, rnames, ks, kr)

\* no command line: the functions are called directly
NoArgs == <<>>

InitRest ==
    /\ pc = "start"
    /\ series_size = NaN
    /\ extra_ids = {}
    /\ df_send = <<>>
    /\ merged = <<>>
    /\ normal_ids = <<>>
    /\ spine_ids = <<>>
    /\ t0 = NaN
    /\ t1 = NaN
    /\ argsort = <<>>
    /\ health = <<>>
    /\ dfh = <<>>
    /\ steps = 0
    /\ results = <<>>
    /\ windows = <<>>
    /\ qos = <<>>
    /\ dfq = <<>>
    /\ averages = <<>>
    /\ offline_times = <<>>
    /\ stdout = <<>>

\* for the health scoring: unit sizes, receives at the last instant
InitHealth ==
    /\ LogIsPacketLog(SenderNames, {1}, {MaxTime}, ReceiverNames, MaxSends, MaxRecvs)
    /\ conn = <<>>
    /\ args = NoArgs
    /\ time_scale = 1
    /\ InitRest

\* send logs for the inference: packet ids in any order, so that rows sent at
\* the same time are ordered by id and rows equal in both keep the file order
InferUids == {1, 2}
InitInfer ==
    /\ \E j \in 0..MaxInferSends : \E c \in [1..j -> InferUids \X Times \X NormalNames] :
          log = [i \in 1..j |-> SendEvent(c[i][1], c[i][2], c[i][3], 1)]
    /\ conn = <<>>
    /\ args = NoArgs
    /\ time_scale = 1
    /\ InitRest

\* connectivity samples: rows (node, time, online) in any order
ConnNodes == {1, 3}
InitConn ==
    /\ log = <<>>
    /\ \E j \in 0..MaxSamples : \E c \in [1..j -> ConnNodes \X (0..MaxConnTime) \X BOOLEAN] :
          conn = [i \in 1..j |-> [node |-> c[i][1], time |-> c[i][2], online |-> c[i][3]]]
    /\ args = NoArgs
    /\ time_scale = 1
    /\ InitRest

\* for the QoS aggregation: normal senders, two packet sizes, sends and
\* receives at the first or the last instant (the run lasts 0 or MaxQosTime
\* seconds, and a receive may precede its send), one receiver
PacketSizes == {1, 2}
QosTimes == {0, MaxQosTime}
InitQos ==
    /\ LogIsTimedPacketLog(QosTimes, NormalNames, PacketSizes, QosTimes, {<<"1", "S">>},
                           MaxQosSends, MaxQosRecvs)
    /\ conn = <<>>
    /\ args = NoArgs
    /\ time_scale = 1
    /\ InitRest

----------------------------------------------------------------------------
(* Actions. *)

\* load_and_merge_packets(path)
Load ==
    /\ pc = "start"
    /\ df_send' = SendRows(log)
    /\ merged' = MergeLeft(SendRows(log), RecvRows(log))
    /\ spine_ids' = SpineIdsOf(merged')
    /\ normal_ids' = NormalIdsOf(merged')
    /\ t0' = TimeMin(df_send')
    /\ t1' = TimeMax(df_send')
    /\ pc' = "loaded"
    /\ UNCHANGED <<args, stdout, time_scale, log, conn, series_size, extra_ids, argsort, health, dfh, steps,
                   results, windows, qos, dfq, averages, offline_times>>

\* compute_health(merged, normal_ids, spine_ids, series_size), called with a
\* series size and with load's normal_ids, or with those and a silent node
ComputeHealth ==
    /\ pc = "loaded"
    /\ \E k \in 1..MaxSeries, x \in SUBSET SilentNames :
         LET ids == ArgIdsOf(normal_ids, x)
         IN /\ series_size' = Some(k)
            /\ extra_ids' = x
            /\ \E ext \in ArgsortChoices(KeysSorted(merged, ids) \ DOMAIN argsort) :
                 /\ argsort' = ext @@ argsort
                 /\ health' = [i \in 1..Len(ids) |->
                                  HealthRecord(merged, ids[i], spine_ids, k, argsort')]
    /\ dfh' = HealthFrame(health')
    /\ pc' = "scored"
    /\ UNCHANGED <<args, stdout, time_scale, log, conn, df_send, merged, normal_ids, spine_ids, t0, t1,
                   steps, results, windows, qos, dfq, averages, offline_times>>

\* step * 100 // steps
Percent(k, n) == (k * 100) \div n

\* mutant: the window keeps the sends after the cutoff
WindowAfter(m, a, b, pct) ==
    LET In(r) == r.time_send * 100 > Val(a) * 100 + (Val(b) - Val(a)) * pct
    IN IF IsNaN(a) \/ IsNaN(b) THEN <<>> ELSE SelectSeq(m, In)

\* t0 + (t1 - t0) * (pct / 100.0) is computed in binary64.  For times that are
\* whole seconds up to 6, and for times that are tenths of a second up to 1.0,
\* with pct in 1..100, the computed cutoff compares with every such time as the
\* exact value does, except that for the triples (t0, t1, pct) below, in
\* tenths, it is one unit in the last place under the time it equals exactly
\* (0.2 + (0.9 - 0.2) * 1.0 = 0.8999999999999999 < 0.9).
CutFallsShort == {<<2, 9, 100>>, <<3, 7, 25>>, <<2, 7, 60>>}

\* time_send <= t_cut for a send at time t (times in units of 1/time_scale s)
LeqCut(t, a, b, pct) ==
    IF /\ time_scale = 10
       /\ t * 100 = a * 100 + (b - a) * pct
       /\ <<a, b, pct>> \in CutFallsShort
    THEN FALSE
    ELSE t * 100 <= a * 100 + (b - a) * pct

\* merged[merged["time_send"] <= t0 + (t1 - t0) * (pct / 100.0)]; a comparison
\* with NaN is false
Window(m, a, b, pct) ==
    LET In(r) == LeqCut(r.time_send, Val(a), Val(b), pct)
    IN IF IsNaN(a) \/ IsNaN(b) THEN <<>> ELSE SelectSeq(m, In)

\* the loop body over normal_ids for one window: total and healthy
WindowTotal(w, ids, size) ==
    SeqSum([i \in 1..Len(ids) |-> Ceil(Len(RowsOfNode(w, ids[i])), size)])
WindowHealthy(w, ids, spines, size, memo) ==
    SeqSum([i \in 1..Len(ids) |->
              HealthyCount(SortByTime(RowsOfNode(w, ids[i]), memo), spines, size)])

\* the locals of one iteration of the loop over step
WindowSample(k, n, ids, size, memo) ==
    LET pct == Percent(k, n)
        w == Window(merged, t0, t1, pct)
        total == WindowTotal(w, ids, size)
        healthy == WindowHealthy(w, ids, spine_ids, size, memo)
    IN [pct |-> pct, rows |-> w, total |-> total, healthy |-> healthy,
        frac |-> HealthFrac(healthy, total)]

\* compute_health_over_time(merged, normal_ids, spine_ids, series_size, t0, t1, steps)
ComputeHealthOverTime ==
    /\ pc = "scored"
    /\ \E n \in 1..MaxSteps :
         /\ steps' = n
         /\ LET keys == UNION {KeysSorted(Window(merged, t0, t1, Percent(k, n)), ArgIds) :
                                  k \in 1..n}
            IN \E ext \in ArgsortChoices(keys \ DOMAIN argsort) :
                 /\ argsort' = ext @@ argsort
                 /\ windows' = [k \in 1..n |->
                                  WindowSample(k, n, ArgIds, Val(series_size), argsort')]
         /\ results' = [k \in 1..n |-> <<windows'[k].pct, windows'[k].frac>>]
    /\ pc' = "windowed"
    /\ UNCHANGED <<args, stdout, time_scale, log, conn, df_send, merged, normal_ids, spine_ids, t0, t1,
                   series_size, extra_ids, health, dfh, qos, dfq, averages,
                   offline_times>>

\* analyze_health: series_size = infer_series_size_from_runs(df_send); the
\* function raises RuntimeError when there are no sends
InferSeries ==
    /\ pc = "loaded"
    /\ IF df_send = <<>>
       THEN /\ pc' = "error"
            /\ UNCHANGED series_size
       ELSE /\ pc' = "inferred"
            /\ series_size' = Some(InferSeriesSize(df_send))
    /\ UNCHANGED <<args, stdout, time_scale, log, conn, df_send, merged, normal_ids, spine_ids, t0, t1,
                   extra_ids, argsort, health, dfh, steps, results, windows, qos, dfq,
                   averages, offline_times>>

\* compute_qos(merged, normal_ids, spine_ids, t0, t1), called with load's
\* normal_ids, or with those and a silent node
ComputeQos ==
    /\ pc = "loaded"
    /\ \E x \in SUBSET SilentNames :
         LET ids == ArgIdsOf(normal_ids, x)
         IN /\ extra_ids' = x
            /\ qos' = [i \in 1..Len(ids) |-> QosRecord(merged, ids[i], SimDuration(t0, t1))]
    /\ averages' = QosAverages(qos')
    /\ dfq' = QosFrame(qos')
    /\ pc' = "qos"
    /\ UNCHANGED <<args, stdout, time_scale, log, conn, df_send, merged, normal_ids, spine_ids, t0, t1,
                   series_size, argsort, health, dfh, steps, results, windows,
                   offline_times>>

\* plot_movement: offline_times = ... (the frame the markers are looked up in)
FirstOffline ==
    /\ pc = "start"
    /\ offline_times' = FirstOfflineTimes(conn)
    /\ pc' = "offline"
    /\ UNCHANGED <<args, stdout, time_scale, log, conn, df_send, merged, normal_ids, spine_ids, t0, t1,
                   series_size, extra_ids, argsort, health, dfh, steps, results,
                   windows, qos, dfq, averages>>

NextHealth == Load \/ ComputeHealth \/ ComputeHealthOverTime

SpecHealth == InitHealth /\ [][NextHealth]_vars
----------------------------------------------------------------------------
(* Health scoring: C1 - C5. *)

Scored == pc \in {"scored", "windowed"}

\* a chunk has a packet whose receiver carries the spine suffix
SpineReceived(chunk) == \E j \in 1..Len(chunk) : EndsWithS(chunk[j].recv_node)

\* the send events of node n in the log
SentCount(n) == Cardinality({i \in 1..Len(log) : log[i].received = 0 /\ log[i].node = n})

\* C1: for every scored node, the series counted healthy are exactly the chunks
\* of its sends (in the send-time order used) with a packet received by a node
\* whose id ends in "S", whether or not that node ever sends.
C1_HealthyIffSpineReceived ==
    Scored =>
        \A i \in 1..Len(health) :
            health[i].healthy =
                Cardinality({c \in 0..(health[i].total - 1) :
                    SpineReceived(Chunk(health[i].sub, c, Val(series_size)))})

\* C2: total_series of a node is ceil(number of its send events / series_size).
C2_TotalSeriesIsCeilOfSends ==
    Scored =>
        \A i \in 1..Len(health) :
            health[i].total = Ceil(SentCount(health[i].node), Val(series_size))

\* C3: for every scored node 0 <= healthy_series <= total_series, the fraction is
\* healthy_series / total_series and lies in [0, 1], and it is exactly 0.0 (a
\* defined number) when total_series is 0; the formatted column shows the same.
C3_HealthFractionInRange ==
    Scored =>
        \A i \in 1..Len(health) :
            LET r == health[i]
            IN /\ 0 <= r.healthy /\ r.healthy <= r.total
               /\ r.frac.d > 0
               /\ 0 <= r.frac.n /\ r.frac.n <= r.frac.d
               /\ r.total > 0 => FracEq(r.frac, Frac(r.healthy, r.total))
               /\ r.total = 0 => r.frac.n = 0
               /\ dfh[r.node].health_fraction \in 0..10000
               /\ r.total = 0 => dfh[r.node].health_fraction = 0

\* a node that sent nothing is scored beside a node with some, not all, series healthy
C3_Witness ==
    /\ Scored
    /\ \E i \in 1..Len(health) : health[i].total = 0 /\ SentCount(health[i].node) = 0
    /\ \E i \in 1..Len(health) : 0 < health[i].healthy /\ health[i].healthy < health[i].total

\* no receive time is earlier than its send time
WellTimed ==
    \A i \in 1..Len(merged) :
        IsNaN(merged[i].time_recv) \/ Val(merged[i].time_recv) >= merged[i].time_send

\* C4 as stated: the windowed health fraction never decreases as percent grows.
C4_FractionNonDecreasing ==
    (pc = "windowed" /\ WellTimed) =>
        \A k \in 1..(Len(results) - 1) : FracLeq(results[k][2], results[k + 1][2])

RowSet(rows) == {rows[i] : i \in 1..Len(rows)}

\* C4 amended: the windows are cumulative, so percent, the sends in the window and
\* the network-wide number of series never decrease as percent grows (the
\* fraction healthy / total may).
C4_WindowsCumulative ==
    pc = "windowed" =>
        \A k \in 1..(Len(windows) - 1) :
            /\ results[k][1] <= results[k + 1][1]
            /\ RowSet(windows[k].rows) \subseteq RowSet(windows[k + 1].rows)
            /\ windows[k].total <= windows[k + 1].total

\* a later window holds more series than an earlier one, in a well-timed log
C4_Witness ==
    /\ pc = "windowed"
    /\ WellTimed
    /\ Len(windows) >= 2
    /\ 0 < windows[1].total
    /\ windows[1].total < windows[Len(windows)].total
    /\ windows[1].healthy > 0

\* C5: the correlated table has one row per send event, carrying the first
\* receive of that packet id if there is one.
C5_OneRowPerSend ==
    pc # "start" =>
        /\ Len(merged) = Len(df_send)
        /\ \A i \in 1..Len(merged) :
              /\ merged[i].uid = df_send[i].uid
              /\ merged[i].node = df_send[i].node
              /\ merged[i].time_send = df_send[i].time_send

\* logs with decimal times, in tenths of a second: sends at 0.2 s and 0.9 s,
\* receives at 0.9 s
DecimalTimes == {2, 9}
InitCut ==
    /\ LogIsTimedPacketLog(DecimalTimes, SenderNames, {1}, {9}, ReceiverNames,
                           MaxCutSends, 1)
    /\ conn = <<>>
    /\ args = NoArgs
    /\ time_scale = 10
    /\ InitRest

SpecCut == InitCut /\ [][NextHealth]_vars

\* the sums over the scored nodes of compute_health's columns
HealthySum == SeqSum([i \in 1..Len(health) |-> health[i].healthy])
TotalSum == SeqSum([i \in 1..Len(health) |-> health[i].total])

\* C13: the last sample of compute_health_over_time has percent 100, its window
\* (cutoff t_end) holds every correlated send, and its fraction is the sum of
\* healthy_series over the sum of total_series that compute_health gives on the
\* same inputs, 0.0 when that total is 0.
C13_LastSampleIsWholeRun ==
    pc = "windowed" =>
        LET w == windows[Len(windows)]
        IN /\ w.pct = 100
           /\ results[Len(results)][1] = 100
           /\ w.rows = merged
           /\ FracEq(results[Len(results)][2], HealthFrac(HealthySum, TotalSum))
----------------------------------------------------------------------------
(* Series-size inference: C7. *)

NextInfer == Load \/ InferSeries

SpecInfer == InitInfer /\ [][NextInfer]_vars

\* the send log ordered by (time, id)
OrderedSends == SortByTimeUid(df_send)

\* [a, b] is a maximal block of consecutive sends of one node
IsRun(nodes, a, b) ==
    /\ a <= b
    /\ \A i \in a..b : nodes[i] = nodes[a]
    /\ a = 1 \/ nodes[a - 1] # nodes[a]
    /\ b = Len(nodes) \/ nodes[b + 1] # nodes[a]

\* the starts of the maximal runs, and the length of the run starting at a
RunStarts(nodes) == {a \in 1..Len(nodes) : \E b \in a..Len(nodes) : IsRun(nodes, a, b)}
RunLen(nodes, a) == (CHOOSE b \in a..Len(nodes) : IsRun(nodes, a, b)) - a + 1

\* how many runs have length l, and where the first of them starts
RunFreq(nodes, l) == Cardinality({a \in RunStarts(nodes) : RunLen(nodes, a) = l})
FirstRunOf(nodes, l) ==
    CHOOSE a \in RunStarts(nodes) :
        /\ RunLen(nodes, a) = l
        /\ \A b \in RunStarts(nodes) : RunLen(nodes, b) = l => a <= b

\* C7: on a log that, ordered by (time, id), is k maximal same-node runs each of
\* length L the inference returns L; in general it returns a run length of the
\* highest frequency, and among those the one whose first run comes first.
C7_InferReturnsModeRunLength ==
    pc = "inferred" =>
        LET nodes == NodeColumn(OrderedSends)
            r == Val(series_size)
            lens == {RunLen(nodes, a) : a \in RunStarts(nodes)}
        IN /\ \A i \in 1..(Len(OrderedSends) - 1) :
                 ~KeyLess(OrderedSends[i + 1], OrderedSends[i])
           /\ \A l \in lens : (lens = {l}) => r = l
           /\ r \in lens
           /\ \A l \in lens : RunFreq(nodes, l) <= RunFreq(nodes, r)
           /\ \A l \in lens \ {r} :
                 RunFreq(nodes, l) = RunFreq(nodes, r) =>
                     FirstRunOf(nodes, r) < FirstRunOf(nodes, l)

\* two runs of length two, out of a log that is not in (time, id) order
C7_Witness ==
    /\ pc = "inferred"
    /\ Val(series_size) = 2
    /\ LET nodes == NodeColumn(OrderedSends)
       IN /\ Cardinality(RunStarts(nodes)) = 2
          /\ \A a \in RunStarts(nodes) : RunLen(nodes, a) = 2
    /\ OrderedSends # df_send
----------------------------------------------------------------------------
(* QoS aggregation: C6, C8, C9. *)

NextQos == Load \/ ComputeQos

SpecQos == InitQos /\ [][NextQos]_vars

\* the rows of the correlated table sent by n, and those with a receiver set
SentRows(n) == {i \in 1..Len(merged) : merged[i].node = n}
DeliveredRows(n) == {i \in SentRows(n) : merged[i].recv_node # <<>>}

\* C6: the delivery ratio of a scored node is the no-data marker, never zero,
\* when its sent count is 0, and otherwise received_count / sent_count, in
\* [0, 1]; the counts are those of the node's correlated sends and of the ones
\* among them with a receiver set.
C6_DeliveryRatio ==
    pc = "qos" =>
        \A i \in 1..Len(qos) :
            LET r == qos[i]
                sent == Cardinality(SentRows(r.node))
                received == Cardinality(DeliveredRows(r.node))
            IN /\ sent = 0 => IsNaN(r.pdr) /\ dfq[r.node].pdr = "NaN"
               /\ sent > 0 =>
                     /\ ~IsNaN(r.pdr)
                     /\ Val(r.pdr).d > 0
                     /\ FracEq(Val(r.pdr), Frac(received, sent))
                     /\ FracLeq(Frac(0, 1), Val(r.pdr))
                     /\ FracLeq(Val(r.pdr), Frac(1, 1))
                     /\ dfq[r.node].pdr = FormatPercent(Frac(received, sent))

\* a node that sent nothing is scored beside one that delivered some, not all
C6_Witness ==
    /\ pc = "qos"
    /\ \E i \in 1..Len(qos) : qos[i].total_sent = 0 /\ IsNaN(qos[i].pdr)
    /\ \E i \in 1..Len(qos) : 0 < qos[i].total_received
                              /\ qos[i].total_received < qos[i].total_sent

RECURSIVE SetSum(_, _)
SetSum(S, f) ==
    IF S = {} THEN 0
    ELSE LET x == CHOOSE y \in S : TRUE IN f[x] + SetSum(S \ {x}, f)

\* the bits of the delivered rows of n
DeliveredBits(n) == SetSum(DeliveredRows(n), [i \in 1..Len(merged) |-> merged[i].size * 8])

\* t_end - t_start, when there is a send
HasSpan == ~IsNaN(t0) /\ ~IsNaN(t1)
Span == Val(t1) - Val(t0)

\* C8 as stated: throughput is delivered bits / (t_end - t_start) when that is
\* positive, 0 with no delivered packet, and 0 when the duration is zero.
C8_ThroughputZeroOnZeroDuration ==
    pc = "qos" =>
        \A i \in 1..Len(qos) :
            LET r == qos[i]
            IN /\ DeliveredRows(r.node) = {} => r.throughput.n = 0
               /\ (DeliveredRows(r.node) # {} /\ HasSpan /\ Span > 0) =>
                     FracEq(r.throughput, Frac(DeliveredBits(r.node), Span))
               /\ (HasSpan /\ Span = 0) => r.throughput.n = 0

\* C8 amended: as stated, except that with a zero duration the divisor is 1.0,
\* so the throughput of a node with delivered packets is their bits, not 0.
C8_ThroughputFallbackDuration ==
    pc = "qos" =>
        \A i \in 1..Len(qos) :
            LET r == qos[i]
            IN /\ r.throughput.d > 0
               /\ DeliveredRows(r.node) = {} => r.throughput.n = 0
               /\ (DeliveredRows(r.node) # {} /\ HasSpan /\ Span > 0) =>
                     FracEq(r.throughput, Frac(DeliveredBits(r.node), Span))
               /\ (DeliveredRows(r.node) # {} /\ HasSpan /\ Span = 0) =>
                     FracEq(r.throughput, Frac(DeliveredBits(r.node), 1))

\* a node with two delivered packets of different sizes is scored over a zero
\* duration
C8_Witness ==
    /\ pc = "qos"
    /\ HasSpan /\ Span = 0
    /\ \E i \in 1..Len(qos) :
          /\ \E j, k \in DeliveredRows(qos[i].node) : merged[j].size # merged[k].size
          /\ qos[i].throughput.n > 0

\* the same over a duration of more than a second: the sum of the bits is
\* divided by the duration
C8_PositiveDuration ==
    /\ pc = "qos"
    /\ HasSpan /\ Span > 1
    /\ \E i \in 1..Len(qos) :
          /\ \E j, k \in DeliveredRows(qos[i].node) : merged[j].size # merged[k].size
          /\ FracEq(qos[i].throughput, Frac(DeliveredBits(qos[i].node), Span))
          /\ ~FracEq(qos[i].throughput, Frac(DeliveredBits(qos[i].node), 1))

\* avg is the mean of the values vals[i], i in D, or the no-data marker if D is empty
IsMeanOver(avg, D, vals) ==
    /\ D = {} => IsNaN(avg)
    /\ D # {} =>
          /\ ~IsNaN(avg)
          /\ LET den == [i \in D |-> Val(vals[i]).d]
                 \* the product of the denominators other than that of i
                 Others(i) == [j \in D |-> IF j = i THEN 1 ELSE den[j]]
                 RECURSIVE Prod(_, _)
                 Prod(S, f) == IF S = {} THEN 1
                               ELSE LET x == CHOOSE y \in S : TRUE
                                    IN f[x] * Prod(S \ {x}, f)
                 all == Prod(D, den)
                 num == SetSum(D, [i \in D |-> Val(vals[i]).n * Prod(D, Others(i))])
             IN Val(avg).n * all * Cardinality(D) = num * Val(avg).d

\* C9: each network-wide average is the mean over exactly the scored nodes with
\* a defined value of that metric, and undefined only when there is none.
C9_AveragesOverDefined ==
    pc = "qos" =>
        LET I == 1..Len(qos)
            pdrs == [i \in I |-> qos[i].pdr]
            delays == [i \in I |-> qos[i].avg_delay]
            thrs == [i \in I |-> Some(qos[i].throughput)]
        IN /\ IsMeanOver(averages.avg_pdr, {i \in I : ~IsNaN(pdrs[i])}, pdrs)
           /\ IsMeanOver(averages.avg_delay, {i \in I : ~IsNaN(delays[i])}, delays)
           /\ IsMeanOver(averages.avg_throughput, I, thrs)

\* one node has no delivery ratio, another a ratio but no delay, a third both
C9_Witness ==
    /\ pc = "qos"
    /\ \E i \in 1..Len(qos) : IsNaN(qos[i].pdr)
    /\ \E i \in 1..Len(qos) : ~IsNaN(qos[i].pdr) /\ IsNaN(qos[i].avg_delay)
    /\ \E i \in 1..Len(qos) : ~IsNaN(qos[i].avg_delay) /\ Val(qos[i].pdr).n > 0
    /\ ~IsNaN(averages.avg_pdr) /\ ~IsNaN(averages.avg_delay)

\* the rows of a scored node that were delivered before they were sent
NegativeDelayRows ==
    {i \in 1..Len(merged) :
        /\ \E k \in 1..Len(qos) : qos[k].node = merged[i].node
        /\ ~IsNaN(merged[i].recv_node)
        /\ Val(merged[i].time_recv) < merged[i].time_send}

\* C12: when a delivered packet of a scored node has a receive time earlier
\* than its send time, compute_qos does not return in silence: it fails, or it
\* has printed a warning by the time it returns.
C12_NegativeDelaySurfaced ==
    (pc = "qos" /\ NegativeDelayRows # {}) => stdout # <<>>
----------------------------------------------------------------------------
(* First offline times: C10. *)

NextConn == FirstOffline

SpecConn == InitConn /\ [][NextConn]_vars

\* the times of the samples of node n that are offline
OfflineSampleTimes(n) ==
    {conn[i].time : i \in {j \in 1..Len(conn) : conn[j].node = n /\ ~conn[j].online}}

\* the rows of the mapping for node n
OfflineEntries(n) == {k \in 1..Len(offline_times) : offline_times[k].node = n}

\* C10: the mapping has one entry for each node with an offline sample, the
\* least time among its offline samples, and no entry for any other node.
C10_FirstOfflineIsMinimum ==
    pc = "offline" =>
        /\ \A k \in 1..Len(offline_times) :
              OfflineSampleTimes(offline_times[k].node) # {}
        /\ \A i \in 1..Len(conn) :
              LET n == conn[i].node
              IN IF OfflineSampleTimes(n) = {}
                 THEN OfflineEntries(n) = {}
                 ELSE /\ Cardinality(OfflineEntries(n)) = 1
                      /\ \A k \in OfflineEntries(n) :
                            /\ offline_times[k].offline_time \in OfflineSampleTimes(n)
                            /\ \A t \in OfflineSampleTimes(n) :
                                  offline_times[k].offline_time <= t

\* a node offline twice, the later sample first in the file, is mapped to the
\* earlier time; a node that is never offline has no entry
C10_Witness ==
    /\ pc = "offline"
    /\ \E j, k \in 1..Len(conn) :
          /\ conn[j].node = 3 /\ ~conn[j].online /\ conn[j].time = 2
          /\ conn[k].node = 3 /\ ~conn[k].online /\ conn[k].time = 1
          /\ j < k
    /\ \E i \in 1..Len(conn) : conn[i].node = 1 /\ conn[i].online
    /\ offline_times = << [node |-> 3, offline_time |-> 1] >>
----------------------------------------------------------------------------
(* The command-line run, main(): C11. *)

\* main: steps=10 in the call of analyze_health
MainSteps == 10

\* the columns load_and_merge_packets reads from packets.csv
PacketColumns == {"time", "node", "uid", "size", "received"}

\* --series: absent (None), or an integer
SeriesArgs == {NaN, Some(0), Some(1), Some(2)}

\* the parsed command lines: the column set and --series matter with --packets
\* only; l2_link and online say whether the connectivity file has the column,
\* and matter with --connectivity only
MainArgs ==
    {a \in [packets : BOOLEAN, series : SeriesArgs,
            columns : {PacketColumns} \cup {PacketColumns \ {c} : c \in {"uid", "size"}},
            movement : BOOLEAN, connectivity : BOOLEAN, l2_link : BOOLEAN,
            online : BOOLEAN, plot : BOOLEAN] :
        /\ ~a.packets => (a.series = NaN /\ a.columns = PacketColumns)
        /\ ~a.connectivity => (a.l2_link /\ a.online)}

\* the connectivity files of the run: no rows, or one sample of node 1 with its
\* link count and its online flag, two columns of the file
MainConns ==
    {<<>>} \cup {<<[node |-> 1, time |-> 0, l2_link |-> l, online |-> o]>> :
                    l \in {0, 1}, o \in BOOLEAN}

\* a file is read with --connectivity only, and a cell of a column the file
\* lacks is never read
InitMain ==
    /\ LogIsPacketLog(NormalNames, {1}, {MaxTime}, {<<"1", "S">>}, MaxMainSends, 1)
    /\ args \in MainArgs
    /\ conn \in {c \in MainConns :
                    /\ ~args.connectivity => c = <<>>
                    /\ ~args.l2_link => \A i \in 1..Len(c) : c[i].l2_link = 0
                    /\ ~args.online => \A i \in 1..Len(c) : c[i].online}
    /\ time_scale = 1
    /\ InitRest

\* print(...) of one item, or to_csv / savefig of one file
Emit(out, item, data) == Append(out, [item |-> item, data |-> data])

\* main: if args.packets, and analyze_health up to the return of
\* load_and_merge_packets, which raises when a looked-for column is missing
\* (ValueError) or when the size column is (KeyError)
AnalyzeHealthLoad ==
    /\ pc = "start"
    /\ IF ~args.packets
       THEN /\ pc' = "movement"
            /\ UNCHANGED <<df_send, merged, normal_ids, spine_ids, t0, t1>>
       ELSE IF ~(PacketColumns \subseteq args.columns)
       THEN /\ pc' = "error"
            /\ UNCHANGED <<df_send, merged, normal_ids, spine_ids, t0, t1>>
       ELSE /\ df_send' = SendRows(log)
            /\ merged' = MergeLeft(SendRows(log), RecvRows(log))
            /\ spine_ids' = SpineIdsOf(merged')
            /\ normal_ids' = NormalIdsOf(merged')
            /\ t0' = TimeMin(df_send')
            /\ t1' = TimeMax(df_send')
            /\ pc' = "series"
    /\ UNCHANGED <<args, stdout, time_scale, log, conn, series_size, extra_ids, argsort,
                   health, dfh, steps, results, windows, qos, dfq, averages,
                   offline_times>>

\* analyze_health: the series size, given or inferred (RuntimeError when there
\* are no sends), and the line that prints it
AnalyzeHealthSeries ==
    /\ pc = "series"
    /\ IF IsNaN(args.series) /\ df_send = <<>>
       THEN /\ pc' = "error"
            /\ UNCHANGED <<series_size, stdout>>
       ELSE /\ series_size' = IF IsNaN(args.series) THEN Some(InferSeriesSize(df_send))
                                                    ELSE args.series
            /\ stdout' = Emit(stdout, "Inferred series size", series_size')
            /\ pc' = "health"
    /\ UNCHANGED <<args, time_scale, log, conn, df_send, merged, normal_ids, spine_ids,
                   t0, t1, extra_ids, argsort, health, dfh, steps, results, windows,
                   qos, dfq, averages, offline_times>>

\* analyze_health: compute_health (ZeroDivisionError in n / series_size when
\* the size is 0 and there is a node to score), the table printed and written
AnalyzeHealthPerNode ==
    /\ pc = "health"
    /\ IF Val(series_size) = 0 /\ normal_ids # <<>>
       THEN /\ pc' = "error"
            /\ UNCHANGED <<argsort, health, dfh, stdout>>
       ELSE /\ \E ext \in ArgsortChoices(KeysSorted(merged, normal_ids) \ DOMAIN argsort) :
                 /\ argsort' = ext @@ argsort
                 /\ health' = [i \in 1..Len(normal_ids) |->
                                  HealthRecord(merged, normal_ids[i], spine_ids,
                                               Val(series_size), argsort')]
            /\ dfh' = HealthFrame(health')
            /\ stdout' = Emit(Emit(stdout, "NETWORK HEALTH", dfh'),
                              "health_per_node.csv", dfh')
            /\ pc' = "over_time"
    /\ UNCHANGED <<args, time_scale, log, conn, df_send, merged, normal_ids, spine_ids,
                   t0, t1, series_size, extra_ids, steps, results, windows, qos, dfq,
                   averages, offline_times>>

\* analyze_health: compute_health_over_time with main's steps, the samples
\* printed and written
AnalyzeHealthOverTime ==
    /\ pc = "over_time"
    /\ steps' = MainSteps
    /\ LET keys == UNION {KeysSorted(Window(merged, t0, t1, Percent(k, MainSteps)),
                                     normal_ids) : k \in 1..MainSteps}
       IN \E ext \in ArgsortChoices(keys \ DOMAIN argsort) :
            /\ argsort' = ext @@ argsort
            /\ windows' = [k \in 1..MainSteps |->
                             WindowSample(k, MainSteps, normal_ids, Val(series_size),
                                          argsort')]
    /\ results' = [k \in 1..MainSteps |-> <<windows'[k].pct, windows'[k].frac>>]
    /\ stdout' = Emit(Emit(stdout, "NETWORK HEALTH OVER TIME", results'),
                      "health_over_time.csv", results')
    /\ pc' = "qos"
    /\ UNCHANGED <<args, time_scale, log, conn, df_send, merged, normal_ids, spine_ids,
                   t0, t1, series_size, extra_ids, health, dfh, qos, dfq, averages,
                   offline_times>>

\* analyze_health: compute_qos, the table printed and written, the averages
\* printed, the table written again
AnalyzeHealthQos ==
    /\ pc = "qos"
    /\ qos' = [i \in 1..Len(normal_ids) |->
                 QosRecord(merged, normal_ids[i], SimDuration(t0, t1))]
    /\ averages' = QosAverages(qos')
    /\ dfq' = QosFrame(qos')
    /\ stdout' = Emit(Emit(Emit(Emit(stdout, "QoS METRICS PER NODE", dfq'),
                                "qos_per_node.csv", dfq'),
                           "AVERAGE QoS ACROSS ALL NORMAL NODES", averages'),
                      "qos_per_node.csv", dfq')
    /\ pc' = "movement"
    /\ UNCHANGED <<args, time_scale, log, conn, df_send, merged, normal_ids, spine_ids,
                   t0, t1, series_size, extra_ids, argsort, health, dfh, steps,
                   results, windows, offline_times>>

\* main: if args.movement, analyze_movement prints the statistics of the file
MainMovement ==
    /\ pc = "movement"
    /\ stdout' = IF args.movement THEN Emit(stdout, "MOVEMENT STATISTICS", <<>>)
                                  ELSE stdout
    /\ pc' = "connectivity"
    /\ UNCHANGED <<args, time_scale, log, conn, df_send, merged, normal_ids, spine_ids,
                   t0, t1, series_size, extra_ids, argsort, health, dfh, steps,
                   results, windows, qos, dfq, averages, offline_times>>

\* df["online"] = df["l2_link"].astype(int) > 0
LinkOnline(samples) == [i \in 1..Len(samples) |-> samples[i].l2_link > 0]

\* df["online"].mean() printed as "{:.2%}" (nan% for a file with no rows)
ConnOverall(samples) ==
    IF samples = <<>> THEN NaN
    ELSE Some(FormatPercent(
             Frac(Cardinality({i \in 1..Len(samples) : LinkOnline(samples)[i]}),
                  Len(samples))))

\* count, sum and mean of the online flags of each node, in index order, the
\* mean mapped through "{:.2%}".format
ConnPerNode(samples) ==
    LET keys == SortedInts({samples[i].node : i \in 1..Len(samples)})
        Of(n) == {i \in 1..Len(samples) : samples[i].node = n}
        On(n) == {i \in Of(n) : LinkOnline(samples)[i]}
    IN [k \in 1..Len(keys) |->
          [node |-> keys[k],
           total_samples |-> Cardinality(Of(keys[k])),
           online_count |-> Cardinality(On(keys[k])),
           visibility_fraction |->
               FormatPercent(Frac(Cardinality(On(keys[k])), Cardinality(Of(keys[k]))))]]

\* nodes_per_group of analyze_connectivity
NodesPerGroup == 5

\* for i in range(0, len(nodes), nodes_per_group): one panel for each group
ConnPanels(per_node) ==
    [g \in 1..Ceil(Len(per_node), NodesPerGroup) |->
        [item |-> "Nodes",
         data |-> SubSeq(per_node, (g - 1) * NodesPerGroup + 1,
                         Min2(g * NodesPerGroup, Len(per_node)))]]

\* main: if args.connectivity, analyze_connectivity prints its heading, raises
\* RuntimeError when the file has no l2_link column, and prints the overall
\* fraction and a panel for every group of nodes
MainConnectivity ==
    /\ pc = "connectivity"
    /\ IF ~args.connectivity
       THEN /\ pc' = "plot"
            /\ UNCHANGED stdout
       ELSE IF ~args.l2_link
       THEN /\ pc' = "error"
            /\ stdout' = Emit(stdout, "L2 CONNECTIVITY SUMMARY", <<>>)
       ELSE /\ pc' = "plot"
            /\ stdout' = Emit(Emit(stdout, "L2 CONNECTIVITY SUMMARY", <<>>),
                              "Overall neighbour visibility fraction",
                              ConnOverall(conn))
                         \o ConnPanels(ConnPerNode(conn))
    /\ UNCHANGED <<args, time_scale, log, conn, df_send, merged, normal_ids, spine_ids,
                   t0, t1, series_size, extra_ids, argsort, health, dfh, steps,
                   results, windows, qos, dfq, averages, offline_times>>

\* main: if args.plot and args.movement, RuntimeError without --connectivity,
\* else plot_movement reads the file again, raises KeyError when it has no
\* online column, and saves the figure
MainPlot ==
    /\ pc = "plot"
    /\ IF ~(args.plot /\ args.movement)
       THEN /\ pc' = "done"
            /\ UNCHANGED <<offline_times, stdout>>
       ELSE IF ~args.connectivity \/ ~args.online
       THEN /\ pc' = "error"
            /\ UNCHANGED <<offline_times, stdout>>
       ELSE /\ offline_times' = FirstOfflineTimes(conn)
            /\ stdout' = Emit(stdout, "plot", offline_times')
            /\ pc' = "done"
    /\ UNCHANGED <<args, time_scale, log, conn, df_send, merged, normal_ids, spine_ids,
                   t0, t1, series_size, extra_ids, argsort, health, dfh, steps,
                   results, windows, qos, dfq, averages>>

NextMain ==
    \/ AnalyzeHealthLoad
    \/ AnalyzeHealthSeries
    \/ AnalyzeHealthPerNode
    \/ AnalyzeHealthOverTime
    \/ AnalyzeHealthQos
    \/ MainMovement
    \/ MainConnectivity
    \/ MainPlot

SpecMain == InitMain /\ [][NextMain]_vars

\* the items of the output that are result tables, printed or written
ResultTables ==
    {"NETWORK HEALTH", "health_per_node.csv", "NETWORK HEALTH OVER TIME",
     "health_over_time.csv", "QoS METRICS PER NODE", "qos_per_node.csv",
     "AVERAGE QoS ACROSS ALL NORMAL NODES", "MOVEMENT STATISTICS",
     "Overall neighbour visibility fraction", "Nodes"}

EmittedTables == {stdout[i].item : i \in 1..Len(stdout)} \cap ResultTables

\* C11: a run that ends in an error (missing column, no sends for the
\* inference, invalid series size, --plot without --connectivity) has printed
\* or written no result table before the error is raised.
C11_NoTableBeforeError ==
    pc = "error" => EmittedTables = {}
====
